---- MODULE Spec2Model ----
(***************************************************************************)
(* The streaming splitter of split.py: split_complete_works reads one      *)
(* anthology line by line, skips the table of contents, matches the        *)
(* catalog titles in strict order, trims the preamble of each retained     *)
(* work with flush_preamble and writes one file per retained work.         *)
(*                                                                         *)
(* Text is modelled character by character: a line is a sequence of        *)
(* one-character strings, and strip/upper/isupper/re.sub/re.match are      *)
(* computed on those characters.                                           *)
(*                                                                         *)
(* Two pure functions are specified on their own: the marker test of       *)
(* flush_preamble (SpecMarker) and safe_savgol of arc.py (SpecSavgol).     *)
(***************************************************************************)
EXTENDS Integers, Sequences, FiniteSets, TLC

(***************************************************************************)
(* Bounds of the model.  The catalog of split.py has 44 entries and both   *)
(* buffer thresholds are 1000 lines; the model keeps the code and scales   *)
(* the sizes.                                                              *)
(***************************************************************************)
\* number of catalog entries (len(EXPECTED_WORKS_SEQUENCE), 44 in the source)
NumWorks == 3
\* number of lines of the input file
MaxLines == 6
\* flush threshold of the body buffer (BUFFER_LIMIT, 1000 in the source)
BUFFER_LIMIT == 2
\* threshold of the preamble window (the literal 1000 of line 162)
PREAMBLE_LIMIT == 2
\* largest number of scored sentences passed to safe_savgol
MaxDataLen == 205

None == 0

(***************************************************************************)
(* Characters and the string operations of Python used by the splitter.    *)
(***************************************************************************)
UpperLetters ==
  <<"A","B","C","D","E","F","G","H","I","J","K","L","M","N","O","P","Q","R","S","T","U","V","W","X","Y","Z">>
LowerLetters ==
  <<"a","b","c","d","e","f","g","h","i","j","k","l","m","n","o","p","q","r","s","t","u","v","w","x","y","z">>
Whitespace == {" ", "\n", "\t"}

IsUpperChar(c) == \E i \in 1..26 : UpperLetters[i] = c
IsLowerChar(c) == \E i \in 1..26 : LowerLetters[i] = c

\* one character of str.upper()
char_upper(c) ==
  IF IsLowerChar(c) THEN UpperLetters[CHOOSE i \in 1..26 : LowerLetters[i] = c] ELSE c

\* str.upper()
str_upper(s) == [i \in 1..Len(s) |-> char_upper(s[i])]

\* str.isupper(): at least one cased character and no lowercase character
str_isupper(s) ==
  /\ \E i \in 1..Len(s) : IsUpperChar(s[i])
  /\ \A i \in 1..Len(s) : ~IsLowerChar(s[i])

\* str.strip(): drop leading and trailing whitespace
str_strip(s) ==
  LET keep == {i \in 1..Len(s) : s[i] \notin Whitespace}
  IN IF keep = {} THEN <<>>
     ELSE SubSeq(s, CHOOSE i \in keep : \A j \in keep : i <= j,
                    CHOOSE i \in keep : \A j \in keep : j <= i)

\* sub in s
str_contains(sub, s) ==
  \E i \in 0..(Len(s) - Len(sub)) : SubSeq(s, i + 1, i + Len(sub)) = sub

\* re.sub(r"[^A-Z]", "", s.upper())
normalize(s) == SelectSeq(str_upper(s), IsUpperChar)

(***************************************************************************)
(* start_pattern of flush_preamble:                                        *)
(*   ^(ACT\s+I|PROLOGUE|SCENE\s+I|INDUCTION)[\.\s]*$  with re.IGNORECASE   *)
(***************************************************************************)
\* the pattern is not anchored at the end
TailMatches_open(s, from) == TRUE

\* [\.\s]*$ from position from on
TailMatches(s, from) ==
  \A i \in from..Len(s) : s[i] = "." \/ s[i] \in Whitespace

\* a literal alternative (PROLOGUE, INDUCTION) followed by the tail
MatchWord(s, w) ==
  /\ Len(s) >= Len(w)
  /\ SubSeq(str_upper(s), 1, Len(w)) = w
  /\ TailMatches(s, Len(w) + 1)

\* an alternative of the form  w\s+I  (ACT\s+I, SCENE\s+I) followed by the tail
MatchWordSpaceI(s, w) ==
  \E k \in 1..Len(s) :
     /\ Len(s) >= Len(w) + k + 1
     /\ SubSeq(str_upper(s), 1, Len(w)) = w
     /\ \A i \in (Len(w) + 1)..(Len(w) + k) : s[i] \in Whitespace
     /\ char_upper(s[Len(w) + k + 1]) = "I"
     /\ TailMatches(s, Len(w) + k + 2)

\* start_pattern.match(s)
start_pattern_match(s) ==
  \/ MatchWordSpaceI(s, <<"A","C","T">>)
  \/ MatchWord(s, <<"P","R","O","L","O","G","U","E">>)
  \/ MatchWordSpaceI(s, <<"S","C","E","N","E">>)
  \/ MatchWord(s, <<"I","N","D","U","C","T","I","O","N">>)

(***************************************************************************)
(* The catalog.  The titles are titles of the source's catalog; the last   *)
(* entry is VENUSANDADONIS, the terminator of the table of contents.  The  *)
(* is_play flags range over all assignments, which include the shape of    *)
(* the source (poems first and last, plays between).                       *)
(***************************************************************************)
VENUSANDADONIS == <<"V","E","N","U","S","A","N","D","A","D","O","N","I","S">>

TitlePool ==
  << <<"T","H","E","S","O","N","N","E","T","S">>,
     <<"C","Y","M","B","E","L","I","N","E">>,
     <<"T","H","E","T","E","M","P","E","S","T">>,
     <<"M","A","C","B","E","T","H">> >>

\* normalized title of entry k (1-based position)
TitleOf(k) == IF k = NumWorks THEN VENUSANDADONIS ELSE TitlePool[k]

\* the catalogs: entry = <<normalized title, is_play, safe_title>>; the
\* output file of entry k is identified by k
Catalogs ==
  { [k \in 1..NumWorks |-> <<TitleOf(k), f[k], k>>] : f \in [1..NumWorks -> BOOLEAN] }

(***************************************************************************)
(* The lines an input file is made of: the heading of every catalog        *)
(* entry as it is printed (with spaces), a heading in mixed case, the      *)
(* "Contents" header and a start-of-content marker.                        *)
(***************************************************************************)
HeadingPool ==
  << <<"T","H","E"," ","S","O","N","N","E","T","S","\n">>,
     <<"C","Y","M","B","E","L","I","N","E","\n">>,
     <<"T","H","E"," ","T","E","M","P","E","S","T","\n">>,
     <<"M","A","C","B","E","T","H","\n">> >>
VenusHeading == <<"V","E","N","U","S"," ","A","N","D"," ","A","D","O","N","I","S","\n">>
HeadingOf(k) == IF k = NumWorks THEN VenusHeading ELSE HeadingPool[k]

VenusProse == <<"V","e","n","u","s"," ","a","n","d"," ","A","d","o","n","i","s","\n">>
ContentsLine == <<"C","o","n","t","e","n","t","s","\n">>
ActLine == <<"A","C","T"," ","I",".","\n">>

Lines == {HeadingOf(k) : k \in 1..NumWorks} \cup {VenusProse, ContentsLine, ActLine}

(***************************************************************************)
(* What the splitter computes from a line, tabulated once per line of the  *)
(* input alphabet.                                                         *)
(***************************************************************************)
\* line 98: clean_line = line.strip()
clean_line_of == [line \in Lines |-> str_strip(line)]
\* line 102: "Contents" in clean_line
has_contents == [line \in Lines |->
                   str_contains(<<"C","o","n","t","e","n","t","s">>, clean_line_of[line])]
\* lines 109 and 119: re.sub(r"[^A-Z]", "", clean_line.upper())
line_normalized == [line \in Lines |-> normalize(clean_line_of[line])]
\* line 117: clean_line.isupper()
line_isupper == [line \in Lines |-> str_isupper(clean_line_of[line])]
\* line 66: start_pattern.match(preamble_buffer[i].strip())
is_start == [line \in Lines |-> start_pattern_match(str_strip(line))]

(***************************************************************************)
(* State.                                                                  *)
(***************************************************************************)
VARIABLES
  pc,                       \* "start", "loop", "done", "aborted"
  input_exists,             \* os.path.exists(filepath)
  EXPECTED_WORKS_SEQUENCE,  \* the catalog
  state,                    \* WAIT_FOR_TOC, SKIP_TOC, EXTRACT_WORKS
  current_work_idx,         \* 0-based index of the next expected entry
  current_file,             \* None or the id of the file the handle refers to
  saved_count,
  buffer,
  in_preamble,
  preamble_buffer,
  files,                    \* the output directory: id -> [exists, open, content]
  nread,                    \* number of lines read from the input
  stream,                   \* history: the lines read in EXTRACT_WORKS
  events,                   \* history: the open and close calls, in order
  matched,                  \* history: the boundary matches, in order
  resolved,                 \* history: the calls of flush_preamble, in order
  last_line,                \* history: the line read last
  return_value,             \* "pending" until split_complete_works returns
  probe                     \* argument and result of a function checked on its own

vars == <<pc, input_exists, EXPECTED_WORKS_SEQUENCE, state, current_work_idx,
          current_file, saved_count, buffer, in_preamble, preamble_buffer,
          files, nread, stream, events, matched, resolved, last_line,
          return_value, probe>>

prog == <<state, current_work_idx, current_file, saved_count, buffer,
          in_preamble, preamble_buffer, files>>
hist == <<stream, events, matched, resolved>>

(***************************************************************************)
(* Output files.                                                           *)
(***************************************************************************)
\* the file is opened for appending
fs_open_append(fs, k) == [fs EXCEPT ![k].exists = TRUE, ![k].open = TRUE]

\* open(path, "w"): create or truncate
fs_open(fs, k) == [fs EXCEPT ![k] = [exists |-> TRUE, open |-> TRUE, content |-> <<>>]]
\* write / writelines
fs_write(fs, k, ls) == [fs EXCEPT ![k].content = @ \o ls]
\* close
fs_close(fs, k) == [fs EXCEPT ![k].open = FALSE]

(***************************************************************************)
(* flush_preamble                                                          *)
(***************************************************************************)
\* the index after the marker is returned
RECURSIVE find_start_idx_after(_, _)
find_start_idx_after(pb, i) ==
  IF i < 0 THEN 0
  ELSE IF is_start[pb[i + 1]] THEN i + 1
  ELSE find_start_idx_after(pb, i - 1)

\* the scan runs forward and stops at the first marker
find_start_idx_first(pb, i) ==
  LET found == {j \in 0..i : is_start[pb[j + 1]]}
  IN IF found = {} THEN 0 ELSE CHOOSE j \in found : \A h \in found : j <= h

\* the backward loop of lines 64-68; i is the 0-based loop index
RECURSIVE find_start_idx(_, _)
find_start_idx(pb, i) ==
  IF i < 0 THEN 0
  ELSE IF is_start[pb[i + 1]] THEN i
  ELSE find_start_idx(pb, i - 1)

\* a window without a marker is discarded
flush_preamble_dropall(buf, pb) ==
  LET found == \E i \in 1..Len(pb) : is_start[pb[i]]
      start_idx == find_start_idx(pb, Len(pb) - 1)
  IN [buffer |-> IF found THEN buf \o SubSeq(pb, start_idx + 1, Len(pb)) ELSE buf,
      preamble_buffer |-> <<>>]

\* the two lists after the call
flush_preamble(buf, pb) ==
  LET start_idx == find_start_idx(pb, Len(pb) - 1)
  IN [buffer |-> buf \o SubSeq(pb, start_idx + 1, Len(pb)),
      preamble_buffer |-> <<>>]

\* history record of one call of flush_preamble for file id
FlushRecord(id, buf, pb) ==
  [id |-> id, window |-> pb, buffer_in |-> buf,
   buffer_out |-> flush_preamble(buf, pb).buffer,
   window_out |-> flush_preamble(buf, pb).preamble_buffer]

(***************************************************************************)
(* split_complete_works                                                    *)
(***************************************************************************)
Init ==
  /\ pc = "start"
  /\ input_exists \in BOOLEAN
  /\ EXPECTED_WORKS_SEQUENCE \in Catalogs
  /\ state = "WAIT_FOR_TOC"
  /\ current_work_idx = 0
  /\ current_file = None
  /\ saved_count = 0
  /\ buffer = <<>>
  /\ in_preamble = FALSE
  /\ preamble_buffer = <<>>
  /\ files = [k \in 1..NumWorks |-> [exists |-> FALSE, open |-> FALSE, content |-> <<>>]]
  /\ nread = 0
  /\ stream = <<>>
  /\ events = <<>>
  /\ matched = <<>>
  /\ resolved = <<>>
  /\ last_line = <<>>
  /\ return_value = "pending"
  /\ probe = "idle"

\* lines 75-77: the input file is missing
Abort ==
  /\ pc = "start"
  /\ ~input_exists
  /\ pc' = "aborted"
  /\ return_value' = "None"
  /\ UNCHANGED <<input_exists, EXPECTED_WORKS_SEQUENCE, prog, nread, hist,
                 last_line, probe>>

\* lines 79-96: the input file is opened
Begin ==
  /\ pc = "start"
  /\ input_exists
  /\ pc' = "loop"
  /\ UNCHANGED <<input_exists, EXPECTED_WORKS_SEQUENCE, prog, nread, hist,
                 last_line, return_value, probe>>

\* the loop reads one more line
Reads ==
  /\ pc = "loop"
  /\ nread < MaxLines
  /\ nread' = nread + 1
  /\ UNCHANGED <<pc, input_exists, EXPECTED_WORKS_SEQUENCE, return_value, probe>>

\* lines 101-104
WaitForToc(line) ==
  /\ Reads
  /\ state = "WAIT_FOR_TOC"
  /\ last_line' = line
  /\ state' = IF has_contents[line]
              THEN "SKIP_TOC" ELSE state
  /\ UNCHANGED <<current_work_idx, current_file, saved_count, buffer,
                 in_preamble, preamble_buffer, files, hist>>

\* the terminator must also be all uppercase, as a boundary must
SkipToc_upper(line) ==
  /\ Reads
  /\ state = "SKIP_TOC"
  /\ last_line' = line
  /\ state' = IF line_isupper[line] /\ line_normalized[line] = VENUSANDADONIS
              THEN "EXTRACT_WORKS" ELSE state
  /\ UNCHANGED <<current_work_idx, current_file, saved_count, buffer,
                 in_preamble, preamble_buffer, files, hist>>

\* a title read in the table of contents moves the cursor
SkipToc_boundary(line) ==
  /\ Reads
  /\ state = "SKIP_TOC"
  /\ last_line' = line
  /\ state' = IF line_normalized[line] = VENUSANDADONIS
              THEN "EXTRACT_WORKS" ELSE state
  /\ current_work_idx' =
        IF /\ current_work_idx < Len(EXPECTED_WORKS_SEQUENCE)
           /\ line_isupper[line]
           /\ line_normalized[line] = EXPECTED_WORKS_SEQUENCE[current_work_idx + 1][1]
        THEN current_work_idx + 1 ELSE current_work_idx
  /\ UNCHANGED <<current_file, saved_count, buffer,
                 in_preamble, preamble_buffer, files, hist>>

\* lines 107-111
SkipToc(line) ==
  /\ Reads
  /\ state = "SKIP_TOC"
  /\ last_line' = line
  /\ state' = IF line_normalized[line] = VENUSANDADONIS
              THEN "EXTRACT_WORKS" ELSE state
  /\ UNCHANGED <<current_work_idx, current_file, saved_count, buffer,
                 in_preamble, preamble_buffer, files, hist>>

\* the title of any entry not yet matched is accepted
is_boundary_lookahead(line, idx, catalog) ==
  /\ idx < Len(catalog)
  /\ line_isupper[line]
  /\ \E j \in (idx + 1)..Len(catalog) : line_normalized[line] = catalog[j][1]

\* the uppercase test of line 117 is missing
is_boundary_anycase(line, idx, catalog) ==
  /\ idx < Len(catalog)
  /\ line_normalized[line] = catalog[idx + 1][1]

\* lines 117-121: the line is the boundary of the next expected work
is_boundary(line, idx, catalog) ==
  /\ idx < Len(catalog)
  /\ line_isupper[line]
  /\ line_normalized[line] = catalog[idx + 1][1]

\* the body buffer is written but not cleared
close_previous_noclear(fs, cf, inp, buf, pb, cnt) ==
  LET fl   == IF inp THEN flush_preamble(buf, pb)
              ELSE [buffer |-> buf, preamble_buffer |-> pb]
      fs1  == IF fl.buffer # <<>> THEN fs_write(fs, cf, fl.buffer) ELSE fs
  IN [files |-> fs_close(fs1, cf),
      in_preamble |-> FALSE,
      buffer |-> fl.buffer,
      preamble_buffer |-> fl.preamble_buffer,
      saved_count |-> cnt + 1]

\* the previous file is written but left open
close_previous_noclose(fs, cf, inp, buf, pb, cnt) ==
  LET fl   == IF inp THEN flush_preamble(buf, pb)
              ELSE [buffer |-> buf, preamble_buffer |-> pb]
      fs1  == IF fl.buffer # <<>> THEN fs_write(fs, cf, fl.buffer) ELSE fs
  IN [files |-> fs1,
      in_preamble |-> FALSE,
      buffer |-> <<>>,
      preamble_buffer |-> fl.preamble_buffer,
      saved_count |-> cnt + 1]

\* the preamble window is not resolved when the previous file is closed
close_previous_nowindow(fs, cf, inp, buf, pb, cnt) ==
  LET fs1  == IF buf # <<>> THEN fs_write(fs, cf, buf) ELSE fs
  IN [files |-> fs_close(fs1, cf),
      in_preamble |-> FALSE,
      buffer |-> <<>>,
      preamble_buffer |-> pb,
      saved_count |-> cnt + 1]

\* lines 123-134: close the previous file
close_previous(fs, cf, inp, buf, pb, cnt) ==
  LET fl   == IF inp THEN flush_preamble(buf, pb)
              ELSE [buffer |-> buf, preamble_buffer |-> pb]
      fs1  == IF fl.buffer # <<>> THEN fs_write(fs, cf, fl.buffer) ELSE fs
  IN [files |-> fs_close(fs1, cf),
      in_preamble |-> FALSE,
      buffer |-> <<>>,
      preamble_buffer |-> fl.preamble_buffer,
      saved_count |-> cnt + 1]

\* the cursor is left where it is
advance_stuck(idx) == idx

\* the cursor skips an entry
advance_skip(idx) == idx + 2

\* line 137
advance(idx) == idx + 1

\* a poem keeps the handle of the previous work
setup_work_keep(fs, cf, inp, pb, is_play, safe_title, line) ==
  IF is_play
  THEN [files |-> fs_write(fs_open(fs, safe_title), safe_title, <<line>>),
        current_file |-> safe_title,
        in_preamble |-> TRUE,
        preamble_buffer |-> <<>>]
  ELSE [files |-> fs,
        current_file |-> cf,
        in_preamble |-> FALSE,
        preamble_buffer |-> pb]

\* a poem starts a preamble window as a play does
setup_work_poem_window(fs, cf, inp, pb, is_play, safe_title, line) ==
  IF is_play
  THEN [files |-> fs_write(fs_open(fs, safe_title), safe_title, <<line>>),
        current_file |-> safe_title,
        in_preamble |-> TRUE,
        preamble_buffer |-> <<>>]
  ELSE [files |-> fs,
        current_file |-> None,
        in_preamble |-> TRUE,
        preamble_buffer |-> pb]

\* lines 140-153: set up the new work; line is the raw title line
setup_work(fs, cf, inp, pb, is_play, safe_title, line) ==
  IF is_play
  THEN [files |-> fs_write(fs_open(fs, safe_title), safe_title, <<line>>),
        current_file |-> safe_title,
        in_preamble |-> TRUE,
        preamble_buffer |-> <<>>]
  ELSE [files |-> fs,
        current_file |-> None,
        in_preamble |-> FALSE,
        preamble_buffer |-> pb]

\* lines 117-155
Boundary(line) ==
  /\ Reads
  /\ state = "EXTRACT_WORKS"
  /\ is_boundary(line, current_work_idx, EXPECTED_WORKS_SEQUENCE)
  /\ last_line' = line
  /\ LET entry == EXPECTED_WORKS_SEQUENCE[current_work_idx + 1]
         c == IF current_file # None
              THEN close_previous(files, current_file, in_preamble, buffer,
                                  preamble_buffer, saved_count)
              ELSE [files |-> files, in_preamble |-> in_preamble,
                    buffer |-> buffer, preamble_buffer |-> preamble_buffer,
                    saved_count |-> saved_count]
         s == setup_work(c.files, current_file, c.in_preamble,
                         c.preamble_buffer, entry[2], entry[3], line)
     IN /\ current_work_idx' = advance(current_work_idx)
        /\ files' = s.files
        /\ current_file' = s.current_file
        /\ in_preamble' = s.in_preamble
        /\ preamble_buffer' = s.preamble_buffer
        /\ buffer' = c.buffer
        /\ saved_count' = c.saved_count
        /\ stream' = Append(stream, line)
        /\ matched' = Append(matched, [idx |-> current_work_idx + 1,
                                       at |-> Len(stream) + 1])
        /\ events' = events
                     \o (IF current_file # None /\ files[current_file].open
                            /\ ~c.files[current_file].open
                         THEN << [op |-> "close", id |-> current_file] >> ELSE <<>>)
                     \o (IF s.current_file # None
                         THEN << [op |-> "open", id |-> s.current_file] >> ELSE <<>>)
        /\ resolved' = IF current_file # None /\ in_preamble
                       THEN Append(resolved, FlushRecord(current_file, buffer, preamble_buffer))
                       ELSE resolved
  /\ state' = state

\* the line is not a boundary (the test of lines 117 and 121 fails)
NotBoundary(line) ==
  /\ Reads
  /\ state = "EXTRACT_WORKS"
  /\ ~is_boundary(line, current_work_idx, EXPECTED_WORKS_SEQUENCE)
  /\ last_line' = line
  /\ stream' = Append(stream, line)
  /\ UNCHANGED <<state, current_work_idx, current_file, saved_count, events, matched>>

\* once the catalog is exhausted every line is dropped
DropLine_exhausted(line) ==
  /\ NotBoundary(line)
  /\ current_file = None \/ current_work_idx = Len(EXPECTED_WORKS_SEQUENCE)
  /\ UNCHANGED <<buffer, in_preamble, preamble_buffer, files, resolved>>

\* line 158 fails: no file is open for the current work
DropLine(line) ==
  /\ NotBoundary(line)
  /\ current_file = None
  /\ UNCHANGED <<buffer, in_preamble, preamble_buffer, files, resolved>>

\* in_preamble stays true after the window reached its bound
preamble_line_stay(buf, pb, line) ==
  LET pb1 == Append(pb, line)
  IN IF Len(pb1) >= PREAMBLE_LIMIT
     THEN [buffer |-> flush_preamble(buf, pb1).buffer,
           preamble_buffer |-> flush_preamble(buf, pb1).preamble_buffer,
           in_preamble |-> TRUE]
     ELSE [buffer |-> buf, preamble_buffer |-> pb1, in_preamble |-> TRUE]

\* the window is resolved only when it exceeds its bound
preamble_line_gt(buf, pb, line) ==
  LET pb1 == Append(pb, line)
  IN IF Len(pb1) > PREAMBLE_LIMIT
     THEN [buffer |-> flush_preamble(buf, pb1).buffer,
           preamble_buffer |-> flush_preamble(buf, pb1).preamble_buffer,
           in_preamble |-> FALSE]
     ELSE [buffer |-> buf, preamble_buffer |-> pb1, in_preamble |-> TRUE]

\* lines 160-164: the values of the two lists and of in_preamble afterwards
preamble_line(buf, pb, line) ==
  LET pb1 == Append(pb, line)
  IN IF Len(pb1) >= PREAMBLE_LIMIT
     THEN [buffer |-> flush_preamble(buf, pb1).buffer,
           preamble_buffer |-> flush_preamble(buf, pb1).preamble_buffer,
           in_preamble |-> FALSE]
     ELSE [buffer |-> buf, preamble_buffer |-> pb1, in_preamble |-> TRUE]

\* lines 159-164
PreambleLine(line) ==
  /\ NotBoundary(line)
  /\ current_file # None
  /\ in_preamble
  /\ LET r == preamble_line(buffer, preamble_buffer, line)
     IN /\ buffer' = r.buffer
        /\ preamble_buffer' = r.preamble_buffer
        /\ in_preamble' = r.in_preamble
        /\ resolved' = IF Len(preamble_buffer) + 1 >= PREAMBLE_LIMIT
                       THEN Append(resolved,
                                   FlushRecord(current_file, buffer,
                                               Append(preamble_buffer, line)))
                       ELSE resolved
  /\ UNCHANGED files

\* the body buffer is never flushed by an append
body_line_noflush(fs, cf, buf, line) ==
  [files |-> fs, buffer |-> Append(buf, line)]

\* lines 166-169: the file system and the buffer afterwards
body_line(fs, cf, buf, line) ==
  LET buf1 == Append(buf, line)
  IN IF Len(buf1) >= BUFFER_LIMIT
     THEN [files |-> fs_write(fs, cf, buf1), buffer |-> <<>>]
     ELSE [files |-> fs, buffer |-> buf1]

\* lines 165-169
BodyLine(line) ==
  /\ NotBoundary(line)
  /\ current_file # None
  /\ ~in_preamble
  /\ LET r == body_line(files, current_file, buffer, line)
     IN /\ files' = r.files
        /\ buffer' = r.buffer
  /\ UNCHANGED <<in_preamble, preamble_buffer, resolved>>

\* the last file is written but not closed
final_cleanup_noclose(fs, cf, inp, buf, pb, cnt) ==
  LET fl   == IF inp THEN flush_preamble(buf, pb)
              ELSE [buffer |-> buf, preamble_buffer |-> pb]
      fs1  == IF fl.buffer # <<>> THEN fs_write(fs, cf, fl.buffer) ELSE fs
  IN [files |-> fs1,
      buffer |-> fl.buffer,
      preamble_buffer |-> fl.preamble_buffer,
      saved_count |-> cnt + 1]

\* the last file is closed but not counted
final_cleanup_nocount(fs, cf, inp, buf, pb, cnt) ==
  LET fl   == IF inp THEN flush_preamble(buf, pb)
              ELSE [buffer |-> buf, preamble_buffer |-> pb]
      fs1  == IF fl.buffer # <<>> THEN fs_write(fs, cf, fl.buffer) ELSE fs
  IN [files |-> fs_close(fs1, cf),
      buffer |-> fl.buffer,
      preamble_buffer |-> fl.preamble_buffer,
      saved_count |-> cnt]

\* lines 172-179: the final cleanup
final_cleanup(fs, cf, inp, buf, pb, cnt) ==
  LET fl   == IF inp THEN flush_preamble(buf, pb)
              ELSE [buffer |-> buf, preamble_buffer |-> pb]
      fs1  == IF fl.buffer # <<>> THEN fs_write(fs, cf, fl.buffer) ELSE fs
  IN [files |-> fs_close(fs1, cf),
      buffer |-> fl.buffer,
      preamble_buffer |-> fl.preamble_buffer,
      saved_count |-> cnt + 1]

\* lines 181-182: the function ends without a return statement
ReturnOfSuccess == "None"

\* lines 171-182: end of input
Finish ==
  /\ pc = "loop"
  /\ pc' = "done"
  /\ return_value' = ReturnOfSuccess
  /\ LET c == IF current_file # None
              THEN final_cleanup(files, current_file, in_preamble, buffer,
                                 preamble_buffer, saved_count)
              ELSE [files |-> files, buffer |-> buffer,
                    preamble_buffer |-> preamble_buffer,
                    saved_count |-> saved_count]
     IN /\ files' = c.files
        /\ buffer' = c.buffer
        /\ preamble_buffer' = c.preamble_buffer
        /\ saved_count' = c.saved_count
        /\ events' = IF current_file # None /\ files[current_file].open
                        /\ ~c.files[current_file].open
                     THEN Append(events, [op |-> "close", id |-> current_file])
                     ELSE events
        /\ resolved' = IF current_file # None /\ in_preamble
                       THEN Append(resolved, FlushRecord(current_file, buffer, preamble_buffer))
                       ELSE resolved
  /\ UNCHANGED <<input_exists, EXPECTED_WORKS_SEQUENCE, state, current_work_idx,
                 current_file, in_preamble, nread, stream, matched, last_line, probe>>

(***************************************************************************)
(* A whole pass as a function of the lines read in EXTRACT_WORKS and of    *)
(* the files found in the output directory: the loop body of lines         *)
(* 114-169 applied line by line, then the cleanup of lines 172-179.  The   *)
(* lines before EXTRACT_WORKS change nothing but state.                    *)
(***************************************************************************)
\* the local variables at the start of a pass over the directory fs
pass_start(fs) ==
  [current_work_idx |-> 0, current_file |-> None, saved_count |-> 0,
   buffer |-> <<>>, in_preamble |-> FALSE, preamble_buffer |-> <<>>, files |-> fs]

\* lines 114-169 for one line
pass_line(st, line, catalog) ==
  IF is_boundary(line, st.current_work_idx, catalog)
  THEN LET entry == catalog[st.current_work_idx + 1]
           c == IF st.current_file # None
                THEN close_previous(st.files, st.current_file, st.in_preamble,
                                    st.buffer, st.preamble_buffer, st.saved_count)
                ELSE [files |-> st.files, in_preamble |-> st.in_preamble,
                      buffer |-> st.buffer, preamble_buffer |-> st.preamble_buffer,
                      saved_count |-> st.saved_count]
           s == setup_work(c.files, st.current_file, c.in_preamble,
                           c.preamble_buffer, entry[2], entry[3], line)
       IN [current_work_idx |-> advance(st.current_work_idx),
           current_file |-> s.current_file,
           saved_count |-> c.saved_count,
           buffer |-> c.buffer,
           in_preamble |-> s.in_preamble,
           preamble_buffer |-> s.preamble_buffer,
           files |-> s.files]
  ELSE IF st.current_file = None THEN st
  ELSE IF st.in_preamble
  THEN LET r == preamble_line(st.buffer, st.preamble_buffer, line)
       IN [st EXCEPT !.buffer = r.buffer, !.preamble_buffer = r.preamble_buffer,
                     !.in_preamble = r.in_preamble]
  ELSE LET r == body_line(st.files, st.current_file, st.buffer, line)
       IN [st EXCEPT !.files = r.files, !.buffer = r.buffer]

\* the loop of line 97 over the lines ls
RECURSIVE pass_lines(_, _, _)
pass_lines(st, ls, catalog) ==
  IF ls = <<>> THEN st
  ELSE pass_lines(pass_line(st, Head(ls), catalog), Tail(ls), catalog)

\* the output directory after a pass over the lines ls that started with
\* the directory fs
pass_files(fs, ls, catalog) ==
  LET st == pass_lines(pass_start(fs), ls, catalog)
  IN IF st.current_file # None
     THEN final_cleanup(st.files, st.current_file, st.in_preamble, st.buffer,
                        st.preamble_buffer, st.saved_count).files
     ELSE st.files

Next ==
  \/ Abort
  \/ Begin
  \/ \E line \in Lines : WaitForToc(line)
  \/ \E line \in Lines : SkipToc(line)
  \/ \E line \in Lines : Boundary(line)
  \/ \E line \in Lines : DropLine(line)
  \/ \E line \in Lines : PreambleLine(line)
  \/ \E line \in Lines : BodyLine(line)
  \/ Finish

Spec == Init /\ [][Next]_vars

(***************************************************************************)
(* The marker test of flush_preamble (line 66) on its own: the candidate   *)
(* lines are built from a leading blank, a word, a gap, a numeral and a    *)
(* tail, and the test is applied to each of them.                          *)
(***************************************************************************)
MarkerLeads == { <<>>, <<" ">> }
MarkerWords ==
  { <<"A","C","T">>, <<"a","c","t">>, <<"A","c","t">>,
    <<"S","C","E","N","E">>, <<"s","c","e","n","e">>,
    <<"P","R","O","L","O","G","U","E">>, <<"p","r","o","l","o","g","u","e">>,
    <<"I","N","D","U","C","T","I","O","N">>,
    <<"E","P","I","L","O","G","U","E">> }
MarkerGaps == { <<>>, <<" ">>, <<" "," ">>, <<"\t">> }
MarkerNumerals == { <<>>, <<"I">>, <<"i">>, <<"1">>, <<"I","I">>, <<"V">> }
MarkerTails ==
  { <<>>, <<".">>, <<".",".">>, <<"."," ">>, <<"\n">>, <<".","\n">>,
    <<"."," ","V","e","n","i","c","e">>, <<"."," ","V","e","n","i","c","e","\n">> }

MarkerProbes ==
  { [lead |-> l, word |-> w, gap |-> g, numeral |-> n, tail |-> t,
     line |-> l \o w \o g \o n \o t, done |-> FALSE, out |-> FALSE] :
       l \in MarkerLeads, w \in MarkerWords, g \in MarkerGaps,
       n \in MarkerNumerals, t \in MarkerTails }

InitMarker ==
  /\ pc = "probe"
  /\ input_exists = TRUE
  /\ EXPECTED_WORKS_SEQUENCE = [k \in 1..NumWorks |-> <<TitleOf(k), TRUE, k>>]
  /\ state = "WAIT_FOR_TOC"
  /\ current_work_idx = 0
  /\ current_file = None
  /\ saved_count = 0
  /\ buffer = <<>>
  /\ in_preamble = FALSE
  /\ preamble_buffer = <<>>
  /\ files = [k \in 1..NumWorks |-> [exists |-> FALSE, open |-> FALSE, content |-> <<>>]]
  /\ nread = 0
  /\ stream = <<>>
  /\ events = <<>>
  /\ matched = <<>>
  /\ resolved = <<>>
  /\ last_line = <<>>
  /\ return_value = "pending"
  /\ probe \in MarkerProbes

\* line 66: start_pattern.match(preamble_buffer[i].strip())
MarkerTest ==
  /\ pc = "probe"
  /\ ~probe.done
  /\ probe' = [probe EXCEPT !.done = TRUE,
                            !.out = start_pattern_match(str_strip(probe.line))]
  /\ UNCHANGED <<pc, input_exists, EXPECTED_WORKS_SEQUENCE, prog, nread, hist,
                 last_line, return_value>>

NextMarker == MarkerTest

SpecMarker == InitMarker /\ [][NextMarker]_vars

(***************************************************************************)
(* safe_savgol of arc.py (lines 52-58) on its own.  The data is            *)
(* represented by its length; process_single_file calls it with the        *)
(* windows 51 and 201 (lines 82-88).  The result records whether           *)
(* savgol_filter is called and with which window_length and polyorder.     *)
(***************************************************************************)
min(a, b) == IF a <= b THEN a ELSE b

\* the requested windows of lines 82-88
SavgolWindows == {51, 201}

\* the length of the data is used as it is, whatever its parity
safe_savgol_anyparity(n, window) ==
  LET w == min(window, n)
  IN IF w < 3
     THEN [call |-> FALSE, window_length |-> w, polyorder |-> 0]
     ELSE [call |-> TRUE, window_length |-> w, polyorder |-> min(3, w - 1)]

\* lines 54-58; a bool counts as 0 or 1 in the subtraction of line 54
safe_savgol(n, window) ==
  LET w == min(window, n - (IF n % 2 = 0 THEN 1 ELSE 0))
  IN IF w < 3
     THEN [call |-> FALSE, window_length |-> w, polyorder |-> 0]
     ELSE [call |-> TRUE, window_length |-> w, polyorder |-> min(3, w - 1)]

SavgolProbes ==
  { [n |-> n, window |-> window, done |-> FALSE,
     out |-> [call |-> FALSE, window_length |-> 0, polyorder |-> 0]] :
       n \in 0..MaxDataLen, window \in SavgolWindows }

InitSavgol ==
  /\ pc = "savgol"
  /\ input_exists = TRUE
  /\ EXPECTED_WORKS_SEQUENCE = [k \in 1..NumWorks |-> <<TitleOf(k), TRUE, k>>]
  /\ state = "WAIT_FOR_TOC"
  /\ current_work_idx = 0
  /\ current_file = None
  /\ saved_count = 0
  /\ buffer = <<>>
  /\ in_preamble = FALSE
  /\ preamble_buffer = <<>>
  /\ files = [k \in 1..NumWorks |-> [exists |-> FALSE, open |-> FALSE, content |-> <<>>]]
  /\ nread = 0
  /\ stream = <<>>
  /\ events = <<>>
  /\ matched = <<>>
  /\ resolved = <<>>
  /\ last_line = <<>>
  /\ return_value = "pending"
  /\ probe \in SavgolProbes

\* one call safe_savgol(data, window) with len(data) = probe.n
SafeSavgol ==
  /\ pc = "savgol"
  /\ ~probe.done
  /\ probe' = [probe EXCEPT !.done = TRUE,
                            !.out = safe_savgol(probe.n, probe.window)]
  /\ UNCHANGED <<pc, input_exists, EXPECTED_WORKS_SEQUENCE, prog, nread, hist,
                 last_line, return_value>>

NextSavgol == SafeSavgol

SpecSavgol == InitSavgol /\ [][NextSavgol]_vars

(***************************************************************************)
(* Vocabulary of the properties.                                           *)
(***************************************************************************)
IsOpenEvent(e) == e.op = "open"
IsCloseEvent(e) == e.op = "close"
\* the open calls, in order
Opens == SelectSeq(events, IsOpenEvent)
\* the retain flag of the entry at catalog position k
Retained(k) == EXPECTED_WORKS_SEQUENCE[k][2]
\* position in the stream of the boundary after the i-th match
NextBoundaryAt(i) == IF i < Len(matched) THEN matched[i + 1].at ELSE Len(stream) + 1
\* the lines from the i-th matched boundary up to the next one
RangeOf(i) == SubSeq(stream, matched[i].at, NextBoundaryAt(i) - 1)
\* the file of the i-th matched entry
SinkOf(i) == files[matched[i].idx]
\* a is an order-preserving subsequence of b
RECURSIVE IsSubseq(_, _)
IsSubseq(a, b) ==
  IF a = <<>> THEN TRUE
  ELSE IF b = <<>> THEN FALSE
  ELSE IF Head(a) = Head(b) THEN IsSubseq(Tail(a), Tail(b))
  ELSE IsSubseq(a, Tail(b))
\* the positions of a window whose line matches a start-of-content marker
MarkersIn(w) == {i \in 1..Len(w) : is_start[w[i]]}
\* the greatest element of a non-empty set of numbers
MaxOf(S) == CHOOSE m \in S : \A n \in S : n <= m
\* the calls of flush_preamble made for file k
ResolutionsOf(k) == {n \in 1..Len(resolved) : resolved[n].id = k}
\* the number of events op on file k
CountOf(op, k) == Cardinality({n \in 1..Len(events) : events[n].op = op /\ events[n].id = k})
OpenSinks == {k \in 1..NumWorks : files[k].open}

TypeOK ==
  /\ pc \in {"start", "loop", "done", "aborted"}
  /\ state \in {"WAIT_FOR_TOC", "SKIP_TOC", "EXTRACT_WORKS"}
  /\ current_work_idx \in 0..NumWorks
  /\ current_file \in 0..NumWorks
  /\ in_preamble \in BOOLEAN
  /\ nread \in 0..MaxLines

(***************************************************************************)
(* C1: the sinks are opened in strictly increasing catalog position, so    *)
(* the opened entries form a subsequence of the catalog and no entry has a *)
(* sink opened twice.                                                      *)
(***************************************************************************)
C1_SinksInCatalogOrder ==
  \A i, j \in 1..Len(Opens) : i < j => Opens[i].id < Opens[j].id

\* two sinks were opened and an entry between them was skipped
C1_Witness ==
  \E i \in 1..(Len(Opens) - 1) : Opens[i + 1].id > Opens[i].id + 1

(***************************************************************************)
(* C2: an entry whose retain flag is false never has a sink, and while it  *)
(* is the current entry every line read is dropped: no file is written     *)
(* and neither the body buffer nor the preamble window changes.            *)
(***************************************************************************)
NoSinkForDropped ==
  \A k \in 1..NumWorks :
     ~Retained(k) => /\ ~files[k].exists
                     /\ \A i \in 1..Len(events) : events[i].id # k

\* the entry matched last is not retained
DroppedActive ==
  /\ matched # <<>>
  /\ ~Retained(matched[Len(matched)].idx)

DroppedStep ==
  DroppedActive /\ matched' = matched
     => /\ files' = files
        /\ buffer' = buffer /\ buffer = <<>>
        /\ preamble_buffer' = preamble_buffer /\ preamble_buffer = <<>>

C2_DroppedEntryHasNoSink == []NoSinkForDropped /\ [][DroppedStep]_vars

\* a dropped entry followed a retained one and lines were read after its title
C2_Witness ==
  /\ DroppedActive
  /\ Len(Opens) >= 1
  /\ Len(stream) >= matched[Len(matched)].at + 2

(***************************************************************************)
(* C3: when no line of the stream matches a start-of-content marker, at    *)
(* the end of the pass the file of every matched retained entry holds      *)
(* exactly the lines from its boundary up to the next matched boundary (or *)
(* the end of input), and no other file exists.                            *)
(***************************************************************************)
NoMarkerInStream == \A i \in 1..Len(stream) : ~is_start[stream[i]]

C3_ContiguousRunWithoutMarker ==
  pc = "done" /\ NoMarkerInStream
     => /\ \A i \in 1..Len(matched) :
              Retained(matched[i].idx)
                 => SinkOf(i).exists /\ SinkOf(i).content = RangeOf(i)
        /\ \A k \in 1..NumWorks :
              files[k].exists
                 => Retained(k) /\ \E i \in 1..Len(matched) : matched[i].idx = k

\* retained, dropped, retained: the first sink holds its title and a body
\* line, the dropped entry has none, the third sink holds its title
C3_Witness ==
  /\ pc = "done" /\ NoMarkerInStream
  /\ Len(matched) = 3
  /\ Retained(1) /\ ~Retained(2) /\ Retained(3)
  /\ Len(files[1].content) = 2
  /\ ~files[2].exists
  /\ files[3].exists

(***************************************************************************)
(* C4: the file of a matched retained entry begins with the raw boundary   *)
(* line that opened it, and the rest is an order-preserving subsequence of *)
(* the lines between that boundary and the next matched boundary.          *)
(***************************************************************************)
C4_SinkWithinItsRange ==
  \A i \in 1..Len(matched) :
     Retained(matched[i].idx)
        => /\ SinkOf(i).content # <<>>
           /\ Head(SinkOf(i).content) = stream[matched[i].at]
           /\ IsSubseq(Tail(SinkOf(i).content),
                       SubSeq(stream, matched[i].at + 1, NextBoundaryAt(i) - 1))

\* a closed sink that lost preamble lines, followed by another sink
C4_Witness ==
  /\ pc = "done"
  /\ \E i \in 1..(Len(matched) - 1) :
        /\ Retained(matched[i].idx) /\ Retained(matched[i + 1].idx)
        /\ 1 < Len(SinkOf(i).content)
        /\ Len(SinkOf(i).content) < Len(RangeOf(i))

(***************************************************************************)
(* C5: at most one sink is open, and it is the one current_file refers to; *)
(* open and close calls alternate, so the previous sink is closed before   *)
(* the next one is opened.                                                 *)
(***************************************************************************)
C5_AtMostOneOpenSink ==
  /\ Cardinality(OpenSinks) <= 1
  /\ OpenSinks \subseteq {current_file}
  /\ \A i \in 1..Len(events) :
        IF i % 2 = 1 THEN events[i].op = "open"
        ELSE events[i].op = "close" /\ events[i].id = events[i - 1].id

\* a boundary closed the open sink and opened the next one
C5_Witness ==
  /\ Cardinality(OpenSinks) = 1
  /\ \E i \in 2..Len(events) : events[i].op = "open" /\ events[i - 1].op = "close"

(***************************************************************************)
(* C6, as stated: when the first line of a preamble window matches a       *)
(* marker, resolving the window discards nothing, whatever follows in the  *)
(* window.                                                                 *)
(***************************************************************************)
C6_Original ==
  \A n \in 1..Len(resolved) :
     LET r == resolved[n]
     IN r.window # <<>> /\ is_start[r.window[1]]
           => r.buffer_out = r.buffer_in \o r.window

(***************************************************************************)
(* C6, amended: when the first line of a preamble window matches a marker  *)
(* and no later line of the window does, resolving the window discards     *)
(* nothing.                                                                *)
(***************************************************************************)
C6_FirstLineOnlyMarker ==
  \A n \in 1..Len(resolved) :
     LET r == resolved[n]
     IN r.window # <<>> /\ MarkersIn(r.window) = {1}
           => r.buffer_out = r.buffer_in \o r.window

\* a window of a marker followed by another line was resolved
C6_Witness ==
  \E n \in 1..Len(resolved) :
     Len(resolved[n].window) >= 2 /\ MarkersIn(resolved[n].window) = {1}

(***************************************************************************)
(* C7: flush_preamble appends to the body buffer the suffix of the window  *)
(* that starts at the greatest index whose line matches a marker, or the   *)
(* whole window when no line matches; the window is empty afterwards.      *)
(***************************************************************************)
C7_SuffixFromLastMarker ==
  \A n \in 1..Len(resolved) :
     LET r == resolved[n]
         M == MarkersIn(r.window)
         kept == IF M = {} THEN r.window
                 ELSE SubSeq(r.window, MaxOf(M), Len(r.window))
     IN /\ r.buffer_out = r.buffer_in \o kept
        /\ r.window_out = <<>>

\* a window whose first and last lines both match a marker was resolved
C7_Witness ==
  \E n \in 1..Len(resolved) :
     LET w == resolved[n].window
     IN Len(w) >= 2 /\ is_start[w[1]] /\ is_start[w[Len(w)]]

(***************************************************************************)
(* C8: when the lines that follow a retained title fill the preamble       *)
(* window and none of them matches a marker, the window is resolved once,  *)
(* nothing is discarded, in_preamble is false from then on, and every line *)
(* of the work up to the next boundary reaches the file.                   *)
(***************************************************************************)
\* the i-th matched entry is retained and its window filled up without a marker
WindowExhausted(i) ==
  /\ Retained(matched[i].idx)
  /\ matched[i].at + PREAMBLE_LIMIT <= NextBoundaryAt(i) - 1
  /\ \A p \in (matched[i].at + 1)..(matched[i].at + PREAMBLE_LIMIT) : ~is_start[stream[p]]

C8_ExhaustedWindowKeptVerbatim ==
  \A i \in 1..Len(matched) :
     WindowExhausted(i)
        => /\ \A n \in ResolutionsOf(matched[i].idx) :
                 /\ resolved[n].window =
                       SubSeq(stream, matched[i].at + 1, matched[i].at + PREAMBLE_LIMIT)
                 /\ resolved[n].buffer_out = resolved[n].window
           /\ Cardinality(ResolutionsOf(matched[i].idx)) = 1
           /\ (i = Len(matched) => ~in_preamble \/ pc = "done")
           /\ (IF SinkOf(i).open THEN SinkOf(i).content \o buffer
                                 ELSE SinkOf(i).content) = RangeOf(i)

\* after the window filled up, a marker line of the same work was read
C8_Witness ==
  /\ pc = "done"
  /\ \E i \in 1..Len(matched) :
        /\ WindowExhausted(i)
        /\ \E p \in (matched[i].at + PREAMBLE_LIMIT + 1)..(NextBoundaryAt(i) - 1) :
              is_start[stream[p]]

(***************************************************************************)
(* C9: a line that is not the eligible title of the entry at the cursor    *)
(* never moves the cursor and never opens or closes a sink, even when it   *)
(* is the title of a later entry; it is appended to the open work, or      *)
(* dropped when none is open; and the pass ends with no sink left open.    *)
(***************************************************************************)
\* the line read by this step in EXTRACT_WORKS
LineRead == stream' # stream
LastRead == stream'[Len(stream')]
\* the line is all uppercase and its key is the title of the entry at the cursor
IsExpectedTitle(line) ==
  /\ current_work_idx < NumWorks
  /\ line_isupper[line]
  /\ line_normalized[line] = EXPECTED_WORKS_SEQUENCE[current_work_idx + 1][1]

UnexpectedLineStep ==
  LineRead /\ ~IsExpectedTitle(LastRead)
     => /\ current_work_idx' = current_work_idx
        /\ current_file' = current_file
        /\ events' = events
        /\ matched' = matched
        /\ IF current_file = None
           THEN files' = files /\ buffer' = buffer /\ preamble_buffer' = preamble_buffer
           ELSE IF in_preamble
           THEN \/ /\ preamble_buffer' = Append(preamble_buffer, LastRead)
                   /\ in_preamble' /\ buffer' = buffer /\ files' = files
                \/ /\ Len(preamble_buffer) + 1 >= PREAMBLE_LIMIT
                   /\ ~in_preamble' /\ files' = files
                   /\ LET w == Append(preamble_buffer, LastRead)
                          M == MarkersIn(w)
                      IN buffer' = buffer \o (IF M = {} THEN w
                                              ELSE SubSeq(w, MaxOf(M), Len(w)))
           ELSE files'[current_file].content \o buffer'
                   = files[current_file].content \o buffer \o <<LastRead>>

C9_MissingTitleFreezesCursor ==
  [](pc = "done" => OpenSinks = {}) /\ [][UnexpectedLineStep]_vars

\* the pass ended with a work open whose file holds the title of an entry
\* beyond the one at the cursor
C9_Witness ==
  /\ pc = "done"
  /\ current_file # None
  /\ \E k \in (current_work_idx + 2)..NumWorks :
        \E p \in 2..Len(files[current_file].content) :
           files[current_file].content[p] = HeadingOf(k)

(***************************************************************************)
(* C10: a sink is opened at most once and never reopened after its close;  *)
(* the close writes everything pending (the resolved preamble window and   *)
(* the body buffer) first; when the pass is done every sink opened has     *)
(* been closed exactly once.                                               *)
(***************************************************************************)
ClosedOnce ==
  \A k \in 1..NumWorks :
     /\ CountOf("open", k) <= 1
     /\ CountOf("close", k) <= CountOf("open", k)
     /\ \A m, n \in 1..Len(events) :
           events[m].id = k /\ events[n].id = k
              /\ events[m].op = "close" /\ events[n].op = "open" => n < m
     /\ (pc = "done" => CountOf("close", k) = CountOf("open", k) /\ ~files[k].open)

CloseStep ==
  \A k \in 1..NumWorks :
     CountOf("close", k)' > CountOf("close", k)
        => /\ k = current_file
           /\ LET M == MarkersIn(preamble_buffer)
                  kept == IF ~in_preamble THEN <<>>
                          ELSE IF M = {} THEN preamble_buffer
                          ELSE SubSeq(preamble_buffer, MaxOf(M), Len(preamble_buffer))
              IN files'[k].content = files[k].content \o buffer \o kept
           /\ preamble_buffer' = <<>>

C10_EverySinkClosedOnce == []ClosedOnce /\ [][CloseStep]_vars

\* the pass is done, two sinks were closed, and the last close resolved a
\* non-empty window
C10_Witness ==
  /\ pc = "done"
  /\ Len(events) = 4
  /\ \E n \in ResolutionsOf(current_file) : resolved[n].window # <<>>

(***************************************************************************)
(* C11: the parser state starts in WAIT_FOR_TOC and only moves forward,    *)
(* one state at a time: it leaves WAIT_FOR_TOC exactly on a line that      *)
(* contains "Contents", leaves SKIP_TOC exactly on a later line whose      *)
(* normalized key is the normalized title of the last catalog entry, and   *)
(* never leaves EXTRACT_WORKS.                                             *)
(***************************************************************************)
ContentsWord == <<"C","o","n","t","e","n","t","s">>

ParserStep ==
  /\ nread' = nread => state' = state
  /\ nread' # nread =>
        CASE state = "WAIT_FOR_TOC" ->
               state' = IF str_contains(ContentsWord, last_line')
                        THEN "SKIP_TOC" ELSE "WAIT_FOR_TOC"
          [] state = "SKIP_TOC" ->
               state' = IF normalize(last_line') = EXPECTED_WORKS_SEQUENCE[NumWorks][1]
                        THEN "EXTRACT_WORKS" ELSE "SKIP_TOC"
          [] OTHER -> state' = "EXTRACT_WORKS"

C11_ParserStateMovesForward ==
  [](pc = "start" => state = "WAIT_FOR_TOC") /\ [][ParserStep]_vars

\* lines were discarded in both states and a terminator in mixed case ended
\* the table of contents
C11_Witness ==
  /\ state = "EXTRACT_WORKS"
  /\ stream = <<>>
  /\ last_line = VenusProse
  /\ nread >= 4

(***************************************************************************)
(* C12: the cursor starts at 0, stays within 0..len(catalog), and a step   *)
(* either leaves it unchanged or adds exactly one to it, the latter        *)
(* exactly when the step is a boundary match.                              *)
(***************************************************************************)
CursorInRange ==
  /\ current_work_idx \in 0..NumWorks
  /\ current_work_idx = Len(matched)
  /\ (pc = "start" => current_work_idx = 0)

CursorStep ==
  IF state = "EXTRACT_WORKS" /\ nread' # nread
        /\ current_work_idx < NumWorks
        /\ line_isupper[last_line']
        /\ line_normalized[last_line'] = EXPECTED_WORKS_SEQUENCE[current_work_idx + 1][1]
  THEN current_work_idx' = current_work_idx + 1
  ELSE current_work_idx' = current_work_idx

C12_CursorMonotonic == []CursorInRange /\ [][CursorStep]_vars

\* every entry of the catalog was matched
C12_Witness == current_work_idx = NumWorks /\ pc = "done"

(***************************************************************************)
(* C13, as stated: when the input file does not exist the pass stops       *)
(* before reading any line, no sink is opened, no output exists, and the   *)
(* value returned to the caller differs from the value a successful pass   *)
(* returns.                                                                *)
(***************************************************************************)
C13_MissingInputIsDistinguishableFailure ==
  pc = "aborted"
     => /\ nread = 0
        /\ events = <<>>
        /\ \A k \in 1..NumWorks : ~files[k].exists
        /\ return_value # ReturnOfSuccess

(***************************************************************************)
(* C14: the marker test accepts a line exactly when, ignoring case and     *)
(* surrounding whitespace, it is ACT I, SCENE I (word, whitespace, I),     *)
(* PROLOGUE or INDUCTION followed only by dots and whitespace; "ACT I."    *)
(* and "act i" are accepted, "ACT 1", "ACT II" and "SCENE I. Venice" are   *)
(* not.                                                                    *)
(***************************************************************************)
OnlyDotsAndBlanks(t) == \A i \in 1..Len(t) : t[i] \in {".", " ", "\t", "\n"}

\* what the claim expects of a candidate built from its parts
ExpectedMarker(p) ==
  /\ OnlyDotsAndBlanks(p.tail)
  /\ \/ /\ str_upper(p.word) \in { <<"A","C","T">>, <<"S","C","E","N","E">> }
        /\ p.gap # <<>>
        /\ str_upper(p.numeral) = <<"I">>
     \/ /\ str_upper(p.word) \in { <<"P","R","O","L","O","G","U","E">>,
                                    <<"I","N","D","U","C","T","I","O","N">> }
        /\ p.numeral = <<>>

C14_MarkerTest ==
  probe.done
     => /\ probe.out = ExpectedMarker(probe)
        /\ (probe.line = <<"A","C","T"," ","I",".">> => probe.out = TRUE)
        /\ (probe.line = <<"a","c","t"," ","i">> => probe.out = TRUE)
        /\ (probe.line = <<"A","C","T"," ","1">> => probe.out = FALSE)
        /\ (probe.line = <<"A","C","T"," ","I","I">> => probe.out = FALSE)
        /\ (probe.line = <<"S","C","E","N","E"," ","I","."," ","V","e","n","i","c","e">>
               => probe.out = FALSE)

\* the test was applied to "SCENE I. Venice"
C14_Witness ==
  /\ probe.done /\ ~probe.out
  /\ probe.line = <<"S","C","E","N","E"," ","I","."," ","V","e","n","i","c","e">>

(***************************************************************************)
(* C15: a pass over the same lines and catalog always ends with the same   *)
(* files, and a second pass that finds the files left by the first leaves  *)
(* the same set of files with the same contents.                           *)
(***************************************************************************)
NoFiles == [k \in 1..NumWorks |-> [exists |-> FALSE, open |-> FALSE, content |-> <<>>]]

C15_RerunLeavesSameFiles ==
  pc = "done"
     => /\ pass_files(NoFiles, stream, EXPECTED_WORKS_SEQUENCE) = files
        /\ pass_files(files, stream, EXPECTED_WORKS_SEQUENCE) = files

\* the first pass left two files, one of them with body lines
C15_Witness ==
  /\ pc = "done"
  /\ Cardinality({k \in 1..NumWorks : files[k].exists}) >= 2
  /\ \E k \in 1..NumWorks : Len(files[k].content) >= 3

(***************************************************************************)
(* Steps of the loop in EXTRACT_WORKS that are not boundary matches.       *)
(***************************************************************************)
\* the step appends the line read to the preamble window
WindowAppendStep ==
  /\ LineRead /\ matched' = matched
  /\ current_file # None /\ in_preamble
\* the step appends the line read to the body buffer
BodyAppendStep ==
  /\ LineRead /\ matched' = matched
  /\ current_file # None /\ ~in_preamble

(***************************************************************************)
(* C16, as stated: whenever the next line is about to be read the body     *)
(* buffer holds strictly fewer lines than its bound.                       *)
(***************************************************************************)
C16_Original == pc = "loop" => Len(buffer) < BUFFER_LIMIT

(***************************************************************************)
(* C16, amended: an ordinary append flushes and clears the body buffer as  *)
(* soon as its length reaches the bound, so it leaves fewer lines than the *)
(* bound; resolving a preamble window adds the kept window lines without   *)
(* flushing, so when the next line is about to be read the buffer holds at *)
(* most as many lines as a full window.                                    *)
(***************************************************************************)
BodyBufferBound ==
  IF PREAMBLE_LIMIT > BUFFER_LIMIT - 1 THEN PREAMBLE_LIMIT ELSE BUFFER_LIMIT - 1

C16_BufferBoundedByWindow ==
  /\ [](pc = "loop" => Len(buffer) <= BodyBufferBound)
  /\ [][BodyAppendStep => Len(buffer') < BUFFER_LIMIT]_vars
  /\ [][WindowAppendStep => Len(buffer') <= PREAMBLE_LIMIT /\ files' = files]_vars

\* a full window without marker was resolved into the body buffer
C16_Witness ==
  /\ pc = "loop"
  /\ ~in_preamble
  /\ Len(buffer) = PREAMBLE_LIMIT
  /\ Len(buffer) >= BUFFER_LIMIT

(***************************************************************************)
(* C17: the preamble window holds fewer lines than its bound whenever a    *)
(* line is about to be read: the append that makes it reach the bound      *)
(* resolves it in the same step, leaving it empty and in_preamble false.   *)
(***************************************************************************)
WindowStep ==
  WindowAppendStep
     => IF Len(preamble_buffer) + 1 >= PREAMBLE_LIMIT
        THEN /\ preamble_buffer' = <<>>
             /\ ~in_preamble'
             /\ Len(resolved') = Len(resolved) + 1
             /\ resolved'[Len(resolved')].window = Append(preamble_buffer, LastRead)
        ELSE /\ preamble_buffer' = Append(preamble_buffer, LastRead)
             /\ in_preamble'
             /\ resolved' = resolved

C17_WindowBelowBound ==
  /\ [](Len(preamble_buffer) < PREAMBLE_LIMIT)
  /\ [](\A n \in 1..Len(resolved) : Len(resolved[n].window) <= PREAMBLE_LIMIT)
  /\ [][WindowStep]_vars

\* the window of the open work reached its bound and was resolved
C17_Witness ==
  /\ pc = "loop"
  /\ current_file # None
  /\ ~in_preamble /\ preamble_buffer = <<>>
  /\ \E n \in ResolutionsOf(current_file) :
        Len(resolved[n].window) = PREAMBLE_LIMIT

(***************************************************************************)
(* C18, as stated: in every reachable state in_preamble is true only while *)
(* a sink of a retained entry is open and the body buffer is empty, and    *)
(* the preamble window is non-empty only while in_preamble is true.        *)
(***************************************************************************)
C18_Original ==
  /\ in_preamble => /\ current_file # None
                    /\ files[current_file].open
                    /\ Retained(current_file)
                    /\ buffer = <<>>
  /\ preamble_buffer # <<>> => in_preamble

(***************************************************************************)
(* C18, amended: the same in every state before the end-of-input cleanup;  *)
(* the cleanup closes the sink and fills the buffer without resetting      *)
(* in_preamble, and after it in_preamble still implies a handle of a       *)
(* retained entry and a non-empty window still implies in_preamble.        *)
(***************************************************************************)
C18_PreambleOnlyWhileSinkOpen ==
  /\ in_preamble => current_file # None /\ Retained(current_file)
  /\ preamble_buffer # <<>> => in_preamble
  /\ pc # "done" => (in_preamble => files[current_file].open /\ buffer = <<>>)

\* a window is being filled for an open sink
C18_Witness ==
  /\ pc = "loop"
  /\ in_preamble
  /\ preamble_buffer # <<>>

(***************************************************************************)
(* C19: for every sink opened, flush_preamble is called exactly once: not  *)
(* yet while its window is being filled, and exactly once from the moment  *)
(* the window reached its bound, the next boundary matched or the input    *)
(* ended.                                                                  *)
(***************************************************************************)
C19_WindowResolvedOnce ==
  \A k \in 1..NumWorks :
     Cardinality(ResolutionsOf(k)) =
        IF CountOf("open", k) = 0 THEN 0
        ELSE IF files[k].open /\ in_preamble THEN 0
        ELSE 1

\* two works were resolved, one at the bound and one at a boundary or at
\* the end of input
C19_Witness ==
  /\ pc = "done"
  /\ \E m, n \in 1..Len(resolved) :
        /\ resolved[m].id # resolved[n].id
        /\ Len(resolved[m].window) = PREAMBLE_LIMIT
        /\ Len(resolved[n].window) < PREAMBLE_LIMIT

(***************************************************************************)
(* C20: in EXTRACT_WORKS a line is a boundary match exactly when the       *)
(* cursor is inside the catalog, the raw line has a letter and no          *)
(* lowercase letter, and its key equals the title at the cursor; any other *)
(* line leaves the cursor, the handle and the sinks' open/close log alone. *)
(***************************************************************************)
\* the raw line has at least one letter and all its letters are uppercase
AllLettersUpper(l) ==
  /\ \E i \in 1..Len(l) : IsUpperChar(l[i]) \/ IsLowerChar(l[i])
  /\ \A i \in 1..Len(l) : ~IsLowerChar(l[i])

BoundaryIffStep ==
  state = "EXTRACT_WORKS" /\ nread' # nread
     => IF /\ current_work_idx < NumWorks
           /\ AllLettersUpper(last_line')
           /\ normalize(last_line') = EXPECTED_WORKS_SEQUENCE[current_work_idx + 1][1]
        THEN /\ Len(matched') = Len(matched) + 1
             /\ matched'[Len(matched')].idx = current_work_idx + 1
             /\ current_work_idx' = current_work_idx + 1
        ELSE /\ matched' = matched
             /\ current_work_idx' = current_work_idx
             /\ current_file' = current_file
             /\ events' = events

C20_BoundaryIffExpectedTitle == [][BoundaryIffStep]_vars

\* with the cursor at the last entry its title was read in mixed case
\* and did not match, and so was the title of an earlier entry
C20_Witness ==
  /\ current_work_idx = NumWorks - 1
  /\ \E p, q \in (matched[Len(matched)].at + 1)..Len(stream) :
        /\ stream[p] = VenusProse
        /\ stream[q] = HeadingOf(1)

(***************************************************************************)
(* C21: a line read in WAIT_FOR_TOC or SKIP_TOC, the Contents header and   *)
(* the terminator included, is discarded: the cursor, the handle, the body *)
(* buffer, the preamble window and the files are left unchanged, nothing   *)
(* is opened, closed or matched, and the line is not part of the extracted *)
(* stream, even when it is the all-uppercase title the cursor expects.     *)
(***************************************************************************)
TocStep ==
  state \in {"WAIT_FOR_TOC", "SKIP_TOC"} /\ nread' # nread
     => /\ current_work_idx' = current_work_idx
        /\ current_file' = current_file
        /\ buffer' = buffer
        /\ preamble_buffer' = preamble_buffer
        /\ in_preamble' = in_preamble
        /\ saved_count' = saved_count
        /\ files' = files
        /\ events' = events
        /\ matched' = matched
        /\ stream' = stream

C21_TocLinesDiscarded == [][TocStep]_vars

\* the all-uppercase title of the first entry was read inside the table of
\* contents, after the header
C21_Witness ==
  /\ state = "SKIP_TOC"
  /\ last_line = HeadingOf(1)
  /\ line_isupper[last_line]
  /\ line_normalized[last_line] = EXPECTED_WORKS_SEQUENCE[current_work_idx + 1][1]

(***************************************************************************)
(* C22: once the cursor equals the length of the catalog, the cursor and   *)
(* every recorded match stay inside the catalog, the pass can still end,   *)
(* and a line read in EXTRACT_WORKS matches no boundary: cursor, handle    *)
(* and open/close log are unchanged; if the handle is None nothing         *)
(* changes, otherwise the handle is the open file of the last entry and    *)
(* the line goes through the general line writing for it, so that the      *)
(* file's content followed by the body buffer and by the preamble window   *)
(* is extended by a suffix of the window that ends with the line.          *)
(***************************************************************************)
\* the lines written to file k or still held for it
PendingOf(fs, k, buf, pb) == fs[k].content \o buf \o pb

ExhaustedInRange ==
  current_work_idx = NumWorks
     => /\ current_work_idx <= Len(EXPECTED_WORKS_SEQUENCE)
        /\ \A i \in 1..Len(matched) : matched[i].idx \in 1..Len(EXPECTED_WORKS_SEQUENCE)
        /\ pc = "loop" => ENABLED Finish
        /\ pc = "done" => return_value = ReturnOfSuccess

ExhaustedStep ==
  state = "EXTRACT_WORKS" /\ current_work_idx = NumWorks /\ nread' # nread
     => /\ current_work_idx' = current_work_idx
        /\ matched' = matched
        /\ events' = events
        /\ current_file' = current_file
        /\ saved_count' = saved_count
        /\ IF current_file = None
           THEN /\ files' = files
                /\ buffer' = buffer
                /\ preamble_buffer' = preamble_buffer
                /\ in_preamble' = in_preamble
           ELSE /\ current_file = NumWorks
                /\ files[current_file].open /\ files'[current_file].open
                /\ \A k \in 1..NumWorks : k # current_file => files'[k] = files[k]
                /\ LET w == Append(preamble_buffer, last_line')
                   IN \E j \in 1..Len(w) :
                         PendingOf(files', current_file, buffer', preamble_buffer')
                           = files[current_file].content \o buffer
                               \o SubSeq(w, j, Len(w))

C22_ExhaustedCatalogIsSilent == []ExhaustedInRange /\ [][ExhaustedStep]_vars

\* the pass ended after a line that was read with the catalog exhausted
\* and the last entry's file open; the line is in that file
C22_Witness ==
  /\ pc = "done"
  /\ current_work_idx = NumWorks
  /\ matched # <<>>
  /\ Len(stream) > matched[Len(matched)].at
  /\ current_file = NumWorks
  /\ files[NumWorks].content = <<HeadingOf(NumWorks), stream[Len(stream)]>>

SinceLastMatch ==
  IF matched = <<>> THEN <<>>
  ELSE SubSeq(stream, matched[Len(matched)].at + 1, Len(stream))

NoLeakState ==
  /\ pc # "done" /\ OpenSinks = {} => buffer = <<>> /\ preamble_buffer = <<>>
  /\ OpenSinks = {} => preamble_buffer = <<>>
  /\ IsSubseq(buffer \o preamble_buffer, SinceLastMatch)

\* file k was opened by the step
OpenedByStep(k) ==
  /\ Len(events') > Len(events)
  /\ events'[Len(events')] = [op |-> "open", id |-> k]

NoLeakStep ==
  /\ \A k \in 1..NumWorks :
        OpenedByStep(k)
           => /\ buffer' = <<>> /\ preamble_buffer' = <<>>
              /\ files'[k].content = <<last_line'>>
  /\ \A k \in 1..NumWorks :
        files'[k].content # files[k].content /\ ~OpenedByStep(k)
           => /\ files[k].open
              /\ k = current_file
              /\ Len(files'[k].content) > Len(files[k].content)
              /\ SubSeq(files'[k].content, 1, Len(files[k].content)) = files[k].content
              /\ IsSubseq(SubSeq(files'[k].content, Len(files[k].content) + 1,
                                 Len(files'[k].content)),
                          buffer \o preamble_buffer
                             \o (IF nread' # nread THEN <<last_line'>> ELSE <<>>))

Closes == SelectSeq(events, IsCloseEvent)

RetainedBelowCursor == {k \in 1..current_work_idx : Retained(k)}

SavedCountState ==
  /\ saved_count = Len(Closes)
  /\ pc = "done" => /\ saved_count = Len(Opens)
                    /\ Len(Opens) = Cardinality(RetainedBelowCursor)

SavedCountStep ==
  saved_count' = saved_count + (Len(events') - Len(events))
                             - (Len(Opens') - Len(Opens))

C24_SavedCountIsSinksOpened == []SavedCountState /\ [][SavedCountStep]_vars

\* the pass ended with two works saved, one closed at a boundary and one
\* at the end of input, and with a dropped entry below the cursor
C24_Witness ==
  /\ pc = "done"
  /\ saved_count = 2
  /\ events[Len(events)].op = "close"
  /\ \E k \in 1..current_work_idx : ~Retained(k)

(***************************************************************************)
(* C25: for every data length n >= 0 and window 51 or 201, safe_savgol     *)
(* returns the data unfiltered, which happens exactly when n < 3 and then  *)
(* with an effective window below 3, or calls savgol_filter with a         *)
(* window_length w that is odd, with 3 <= w <= n and w <= window, and a    *)
(* polyorder p that is w - 1 when that is below 3 and 3 otherwise, with    *)
(* 0 < p < w.                                                              *)
(***************************************************************************)
C25_SavgolPreconditions ==
  probe.done
     => LET w == probe.out.window_length
            p == probe.out.polyorder
        IN /\ probe.out.call <=> probe.n >= 3
           /\ ~probe.out.call => w < 3
           /\ probe.out.call
                 => /\ w % 2 = 1
                    /\ 3 <= w /\ w <= probe.n /\ w <= probe.window
                    /\ p = (IF w - 1 < 3 THEN w - 1 ELSE 3)
                    /\ 0 < p /\ p < w

\* a text of four sentences is filtered with window_length 3 and polyorder 2
C25_Witness ==
  /\ probe.done
  /\ probe.n = 4
  /\ probe.out = [call |-> TRUE, window_length |-> 3, polyorder |-> 2]

====
